---- MODULE Spec2Model ----
(***************************************************************************)
(* Model of the two scripts of the repository:                             *)
(*   scripts/prepare_training_data.py  (phase a: image batch -> corpus)    *)
(*   scripts/submit_fine_tuning.py     (phase b: stage files, run a job)   *)
(*                                                                         *)
(* Specifications:                                                         *)
(*   Spec        process_images: thread pool, collection loop, corpus      *)
(*   SpecResize  resize_image as a pure function of (width, height, M)     *)
(*   SpecUpload  upload_image on one file and one answer of the endpoint   *)
(*   SpecWait    wait_for_file_processing alone, any timeout, any delays   *)
(*   SpecMain    main of submit_fine_tuning.py with the calls it makes     *)
(***************************************************************************)
EXTENDS Integers, Sequences, FiniteSets, TLC

\* ------------------------------------------------------------------------
\* Bounds of the model
\* ------------------------------------------------------------------------

\* Longest image_files list of a batch run.
MaxImages == 3

\* Largest --max-workers value tried.
MaxWorkers == 2

\* Largest width, height and max_size tried on resize_image alone.
MaxDim == 6

\* Largest timeout (seconds) tried on wait_for_file_processing alone.
MaxTimeout == 12

\* Longest delay (seconds) of one status query, and of one sleep beyond its 5 s.
MaxLatency == 2

\* Most job status queries followed in one run of the monitor.
MaxPolls == 3

\* ------------------------------------------------------------------------
\* Program constants
\* ------------------------------------------------------------------------

\* parse_args: --resize default.
DefaultResize == 1024

\* ------------------------------------------------------------------------
\* State
\* ------------------------------------------------------------------------

VARIABLES
    \* --- phase (a), process_images ---
    image_files,        \* the globbed path list (sequence of image files)
    dry_run,            \* args.dry_run
    max_workers,        \* args.max_workers
    apc,                \* position of the main thread in process_images
    submitted,          \* number of executor.submit calls made so far
    fut,                \* future i: [state, outcome]
    calls,              \* calls[i]: upload_image invocations made for path i
    collectIdx,         \* position of the `for future in ...` loop
    training_examples,  \* the list built by the main thread
    corpus,             \* lines of args.output_file
    written,            \* whether args.output_file was opened and written
    completed,          \* history: future indices in completion order
    collected,          \* history: future indices in collection order
    source,             \* history: source[k] = index that gave training_examples[k]
    \* --- resize_image alone ---
    rz,                 \* [pc, readable, w, h, M, out]
    \* --- upload_image alone ---
    ux,                 \* [pc, file, dry_run, resp, out]
    \* --- phase (b), submit_fine_tuning.py ---
    pc,                 \* position in main / wait_for_file_processing / monitor
    args,               \* [api_key, env_key, training_file, has_validation, validation_file]
    exit_code,          \* -1 while running, then the process exit status
    stage,              \* the file being staged: "training" or "validation"
    timeout,            \* wait_for_file_processing: its timeout parameter
    elapsed,            \* wait_for_file_processing: time.time() - start_time
    testedAt,           \* history: elapsed when the loop condition last held
    wres,               \* wait_for_file_processing: "none", "true" or "false"
    onlyPending,        \* history: every poll of this call observed `pending`
    lastObs,            \* history: what the last file status query gave
    observed,           \* history: per file, the last status a query observed
    uploads,            \* history: per file, client.files.create calls made
    creates,            \* history: client.fine_tuning.jobs.create calls made
    jobLog,             \* history: what each job status query gave, in order
    mres,               \* monitor_fine_tuning_job: "none", "true" or "false"
    refused             \* history: the calls (upload per file, "create") that failed

avars == <<image_files, dry_run, max_workers, apc, submitted, fut, calls,
           collectIdx, training_examples, corpus, written, completed,
           collected, source>>

bvars == <<pc, args, exit_code, stage, timeout, elapsed, testedAt, wres,
           onlyPending, lastObs, observed, uploads, creates, jobLog, mres,
           refused>>

vars == <<avars, rz, ux, bvars>>

\* ------------------------------------------------------------------------
\* Helpers
\* ------------------------------------------------------------------------

Range(s) == {s[i] : i \in DOMAIN s}

Max2(a, b) == IF a >= b THEN a ELSE b

Last(s) == s[Len(s)]

\* ------------------------------------------------------------------------
\* resize_image  (prepare_training_data.py 84-105)
\* ------------------------------------------------------------------------

\* resize_image returning None (the failure value of its except clause).
NoImage == [kind |-> "none", w |-> 0, h |-> 0]

\* --- Python float arithmetic of lines 93 and 97 ---
\* `max_size / width` is a true division giving an IEEE 754 double, the
\* product with the int `height` is a double product, and int() truncates.
\* A double is held as [bits, e]: its significant bits, most significant (a
\* 1) first, at most 53 of them, and the binary exponent of the first bit.

\* The significand's width.
Precision == 53

Pow2(n) == 2 ^ n

\* The next n bits of the quotient r / b (r < b), and the remainder left:
\* long division, the first half of the bits and then, from the remainder
\* they leave, the second half.
RECURSIVE DivBits(_, _, _)
DivBits(r, b, n) ==
    IF n = 0 THEN [bits |-> <<>>, rem |-> r]
    ELSE IF n = 1
         THEN LET bit == IF 2 * r >= b THEN 1 ELSE 0
              IN  [bits |-> <<bit>>, rem |-> 2 * r - bit * b]
    ELSE LET hi == DivBits(r, b, n \div 2)
             lo == DivBits(hi.rem, b, n - n \div 2)
         IN  [bits |-> hi.bits \o lo.bits, rem |-> lo.rem]

\* bits + 1, with the carry out of the first bit: the last 0 becomes 1 and
\* the 1s after it become 0.
IncBits(bits) ==
    LET zeros == {i \in DOMAIN bits : bits[i] = 0}
    IN  IF zeros = {}
        THEN [bits |-> [i \in DOMAIN bits |-> 0], carry |-> 1]
        ELSE LET z == CHOOSE i \in zeros : \A j \in zeros : j <= i
             IN  [bits |-> [i \in DOMAIN bits |->
                              IF i < z THEN bits[i] ELSE IF i = z THEN 1 ELSE 0],
                  carry |-> 0]

\* Round to nearest, ties to even: `bits` (Precision of them) followed by a
\* guard bit and a sticky flag for what lies below it.
RoundNearestEven(bits, e, guard, sticky) ==
    IF guard = 1 /\ (sticky \/ bits[Len(bits)] = 1)
    THEN LET r == IncBits(bits)
         IN  IF r.carry = 1
             THEN [bits |-> <<1>> \o [k \in 1..(Len(bits) - 1) |-> 0], e |-> e + 1]
             ELSE [bits |-> r.bits, e |-> e]
    ELSE [bits |-> bits, e |-> e]

\* The least k >= 1 with a * 2^k >= b (for a < b).
RECURSIVE ShiftUp(_, _)
ShiftUp(a, b) == IF 2 * a >= b THEN 1 ELSE 1 + ShiftUp(2 * a, b)

\* The greatest j >= 0 with b * 2^j <= a (for a >= b).
RECURSIVE ShiftDown(_, _)
ShiftDown(a, b) == IF 2 * b > a THEN 0 ELSE 1 + ShiftDown(a, 2 * b)

\* The double a / b, for ints a, b >= 1.
FloatDiv(a, b) ==
    LET e   == IF a >= b THEN ShiftDown(a, b) ELSE 0 - ShiftUp(a, b)
        num == IF a >= b THEN a ELSE a * Pow2(0 - e)
        den == IF a >= b THEN b * Pow2(e) ELSE b
        q   == DivBits(num - den, den, Precision - 1)
        g   == IF 2 * q.rem >= den THEN 1 ELSE 0
    IN  RoundNearestEven(<<1>> \o q.bits, e, g, 2 * q.rem - g * den > 0)

\* The bits of the int n, most significant first (none for 0).
RECURSIVE IntBits(_)
IntBits(n) == IF n = 0 THEN <<>> ELSE IntBits(n \div 2) \o <<n % 2>>

\* The bits of (the integer written by bits) * h: schoolbook multiplication
\* from the last bit up; CarryIn[i] is the carry into the i-th bit from the
\* end.
MulBits(bits, h) ==
    LET L == Len(bits)
        CarryIn[i \in 1..(L + 1)] ==
            IF i = 1 THEN 0 ELSE (bits[L - i + 2] * h + CarryIn[i - 1]) \div 2
    IN  IntBits(CarryIn[L + 1])
            \o [k \in 1..L |-> (bits[k] * h + CarryIn[L - k + 1]) % 2]

\* The double h * q, for an int h >= 1 and a double q.
FloatMulInt(h, q) ==
    LET P  == MulBits(q.bits, h)
        ep == q.e - (Len(q.bits) - 1) + (Len(P) - 1)
    IN  IF Len(P) <= Precision THEN [bits |-> P, e |-> ep]
        ELSE RoundNearestEven(SubSeq(P, 1, Precision), ep, P[Precision + 1],
                              \E k \in (Precision + 2)..Len(P) : P[k] = 1)

\* The int written by the first n of the bits (zeros beyond their end).
RECURSIVE BitsToInt(_, _)
BitsToInt(bits, n) ==
    IF n = 0 THEN 0
    ELSE 2 * BitsToInt(bits, n - 1) + (IF n <= Len(bits) THEN bits[n] ELSE 0)

\* int(x) for a double x >= 0: its integer part.
FloatToInt(x) == IF x.e < 0 THEN 0 ELSE BitsToInt(x.bits, x.e + 1)

\* int(side * (max_size / longer)): the other side scaled and truncated.
ScaledSide(side, max_size, longer) ==
    FloatToInt(FloatMulInt(side, FloatDiv(max_size, longer)))

\* Image.resize((w, h), LANCZOS): the library rejects an empty size with a
\* ValueError, which the function's `except Exception` turns into None.
PilResize(new_width, new_height) ==
    IF new_width < 1 \/ new_height < 1 THEN NoImage
    ELSE [kind |-> "resized", w |-> new_width, h |-> new_height]

\* Lines 90-93 and 102: `if width > height: if width > max_size: ...` has no
\* else branch, so for width <= max_size the names new_width and new_height
\* are unbound at line 102; the UnboundLocalError is caught at line 103 and
\* the function returns None.
ResizeLandscape(width, height, max_size) ==
    IF width > max_size
    THEN PilResize(max_size, ScaledSide(height, max_size, width))
    ELSE NoImage

\* Lines 94-99 and 102: the branch for width <= height.
ResizePortrait(width, height, max_size) ==
    IF height > max_size
    THEN PilResize(ScaledSide(width, max_size, height), max_size)
    ELSE [kind |-> "copy", w |-> width, h |-> height]

\* resize_image on a file: Image.open fails on an unreadable file (None).
ResizeImage(readable, width, height, max_size) ==
    IF ~readable THEN NoImage
    ELSE IF width > height THEN ResizeLandscape(width, height, max_size)
    ELSE ResizePortrait(width, height, max_size)

\* ------------------------------------------------------------------------
\* Inputs of a batch run: the files that photos_dir.glob can list
\* ------------------------------------------------------------------------

\* One file under photos_dir: its path (dir, name), what Image.open finds in
\* it (readable, width, height, mode) and how its name reads to the category
\* patterns (stem: the text before the first whitespace run, ws: whether
\* whitespace follows the stem).
ImageFile(dir, name, stem, ws, readable, w, h, mode) ==
    [dir |-> dir, name |-> name, stem |-> stem, ws |-> ws,
     readable |-> readable, w |-> w, h |-> h, mode |-> mode]

\* The files of the photo directory, in the order the three globs list them
\* (.jpg, then .jpeg, then .png).
ImagePool ==
    << ImageFile("photos", "Adson brown 1.jpg", "Adson brown", TRUE,
                 TRUE, 2048, 1536, "RGB"),
       ImageFile("photos", "MosquitoClampCurved 2.jpg", "MosquitoClampCurved", TRUE,
                 TRUE, 800, 600, "RGB"),
       ImageFile("photos/b", "Hemastatclamp curved.jpeg", "Hemastatclamp curved", FALSE,
                 TRUE, 600, 800, "RGB"),
       ImageFile("photos", "broken.png", "broken", FALSE,
                 FALSE, 0, 0, "RGB"),
       ImageFile("photos/b", "Adson brown 1.png", "Adson brown", TRUE,
                 TRUE, 1200, 3000, "RGBA") >>

\* The sub-lists of ImagePool (pool order kept) of at most MaxImages files.
ImageLists ==
    LET Pick(S) == SelectSeq(ImagePool, LAMBDA f : f \in S)
    IN  {Pick(S) : S \in {T \in SUBSET Range(ImagePool) : Cardinality(T) <= MaxImages}}

\* ------------------------------------------------------------------------
\* get_instrument_category, create_training_example
\* ------------------------------------------------------------------------

\* CATEGORIES (lines 23-30): every pattern is a literal followed by \s+, so a
\* name matches when the literal is followed by whitespace.
CategoryOfStem(stem) ==
    CASE stem = "Adson brown" -> "Adson brown forceps"
      [] stem = "Adson smooth forceps" -> "Adson smooth forceps"
      [] stem = "Extra fine point Jacobson clamp curved" -> "Jacobson clamp curved"
      [] stem = "Hemastatclamp curved" -> "Hemostatic clamp curved"
      [] stem = "Jackson right angle clamp" -> "Jackson right angle clamp"
      [] stem = "MosquitoClampCurved" -> "Mosquito clamp curved"
      [] OTHER -> "Unknown"

get_instrument_category(file) ==
    IF file.ws THEN CategoryOfStem(file.stem) ELSE "Unknown"

\* A message content: a string (isList = FALSE) or a list of items.
TextContent(t) == [isList |-> FALSE, text |-> t, items |-> <<>>]

ListContent(items) == [isList |-> TRUE, text |-> "", items |-> items]

TextItem(t) == [type |-> "text", text |-> t, hasImageUrl |-> FALSE,
                hasUrl |-> FALSE, url |-> ""]

ImageItem(u) == [type |-> "image_url", text |-> "", hasImageUrl |-> TRUE,
                 hasUrl |-> TRUE, url |-> u]

\* Line 159: the system prompt.
SystemPrompt ==
    "You are a surgical instrument identification assistant. When shown an image of a surgical instrument, identify the type of instrument accurately."

\* Line 164: the assistant's answer for a category.
AssistantText(category) ==
    "This is a " \o category
        \o ". It's used in surgical procedures for grasping, clamping, or manipulating tissues."

\* create_training_example without line 162: the user turn has no image.
create_training_example_NoImage(file, image_url) ==
    [hasMessages |-> TRUE,
     messages |-> <<
        [role |-> "system", content |-> TextContent(SystemPrompt)],
        [role |-> "user",
         content |-> ListContent(<< TextItem("What is this surgical instrument?") >>)],
        [role |-> "assistant",
         content |-> TextContent(AssistantText(get_instrument_category(file)))] >>]

create_training_example(file, image_url) ==
    [hasMessages |-> TRUE,
     messages |-> <<
        [role |-> "system", content |-> TextContent(SystemPrompt)],
        [role |-> "user",
         content |-> ListContent(<< TextItem("What is this surgical instrument?"),
                                    ImageItem(image_url) >>)],
        [role |-> "assistant",
         content |-> TextContent(AssistantText(get_instrument_category(file)))] >>]

\* json.dumps(example) + '\n': one line of JSON text holding the example.
JsonLine(example) == [json |-> TRUE, data |-> example]

\* ------------------------------------------------------------------------
\* upload_image  (prepare_training_data.py 107-150)
\* ------------------------------------------------------------------------

\* What one upload_image call gives its caller: a URL, None, or an
\* exception that leaves the function (the future then holds it).
Url(u) == [kind |-> "url", url |-> u]

None == [kind |-> "none", url |-> ""]

Raised == [kind |-> "raise", url |-> ""]

\* A JSON field that is missing, null, a string, or (for `data`) an object.
Absent == [t |-> "absent", v |-> "", u |-> "absent"]

Null == [t |-> "null", v |-> "", u |-> "absent"]

Str(x) == [t |-> "str", v |-> x, u |-> "absent"]

\* An object {"url": x} (u = "str") or {} (u = "absent").
Obj(x) == [t |-> "obj", v |-> x, u |-> IF x = "" THEN "absent" ELSE "str"]

\* What the endpoint answers to the POST: a transport error or non-2xx
\* status (ok = FALSE), or a 2xx JSON object with these three fields.
Response(ok, url, data, image_url) ==
    [ok |-> ok, url |-> url, data |-> data, image_url |-> image_url]

Responses ==
    { Response(FALSE, Absent, Absent, Absent),
      Response(TRUE, Str("https://cdn/u1"), Absent, Absent),
      Response(TRUE, Absent, Obj("https://cdn/d1"), Absent),
      Response(TRUE, Absent, Absent, Str("https://cdn/i1")),
      Response(TRUE, Absent, Absent, Absent) }

\* The 2xx JSON answers tried on upload_image alone: every combination of
\* `url` and `image_url` missing, null, "" or a URL and of `data` missing,
\* null, a string, {} or {"url": URL}; and the failed POST.
ResponseShapes ==
    {Response(FALSE, Absent, Absent, Absent)} \cup
    { Response(TRUE, u, d, i) :
        u \in {Absent, Null, Str(""), Str("https://cdn/u1")},
        d \in {Absent, Null, Str("x"), Obj(""), Obj("https://cdn/d1")},
        i \in {Absent, Null, Str(""), Str("https://cdn/i1")} }

\* Python truthiness of a field value read with dict.get: missing and null
\* read as None, "" and {} are falsy.
Truthy(f) == (f.t = "obj" /\ f.u # "absent") \/ (f.t = "str" /\ f.v # "")

\* Lines 138-147: the URL taken from the parsed response, or the failure of
\* the except clause (None).
ExtractUrl(result) ==
    IF Truthy(result.url) THEN Url(result.url.v)
    ELSE \* result.get('data', {}).get('url')
         IF result.data.t \in {"null", "str"} THEN None    \* AttributeError
         ELSE IF result.data.t = "obj" /\ result.data.u = "str" /\ result.data.v # ""
              THEN Url(result.data.v)
         ELSE IF Truthy(result.image_url) THEN Url(result.image_url.v)
         ELSE None                                            \* ValueError

\* Lines 128-150: the POST and the extraction, inside the try.
PostAndExtract(resp) ==
    IF ~resp.ok THEN None ELSE ExtractUrl(resp)

\* Line 110: the placeholder of dry-run mode, from os.path.basename.
PlaceholderUrl(file) == "http://example.com/images/" \o file.name

\* Line 119: img.save(..., format='JPEG') raises OSError for a mode JPEG
\* cannot hold; the call is outside every try of upload_image.
JpegSavable(mode) == mode \in {"RGB", "L", "CMYK"}

\* upload_image with the dry-run return moved below the resize: an
\* undecodable file then fails in dry-run mode too.
upload_image_ResizeFirst(file, dryRun, resize, resp) ==
    LET img == ResizeImage(file.readable, file.w, file.h, resize)
    IN  IF img.kind = "none" THEN None
        ELSE IF dryRun THEN Url(PlaceholderUrl(file))
        ELSE IF ~JpegSavable(file.mode) THEN Raised
        ELSE PostAndExtract(resp)

\* upload_image(image_path, args) for one file and one endpoint answer.
upload_image(file, dryRun, resize, resp) ==
    IF dryRun THEN Url(PlaceholderUrl(file))
    ELSE LET img == ResizeImage(file.readable, file.w, file.h, resize)
         IN  IF img.kind = "none" THEN None
             ELSE IF ~JpegSavable(file.mode) THEN Raised
             ELSE PostAndExtract(resp)

\* ------------------------------------------------------------------------
\* process_images  (prepare_training_data.py 170-207)
\* ------------------------------------------------------------------------

N == Len(image_files)

Running == {i \in 1..N : fut[i].state = "running"}

Queued == {i \in 1..N : fut[i].state = "queued"}

NotStarted == [state |-> "none", outcome |-> None]

\* The loop written with as_completed: any finished future not yet collected.
NextFuturesAsCompleted ==
    {i \in 1..N : fut[i].state = "done" /\ i \notin Range(collected)}

\* Line 190: `for future in tqdm(future_to_image, ...)` walks the dict in
\* insertion order, that is in submission order; the loop is at collectIdx.
NextFutures == {i \in 1..N : i = collectIdx}

\* Line 194 without its test: every outcome becomes an example.
KeepsAnyOutcome(o) == TRUE

\* Line 194: `if image_url:`.
KeepsOutcome(o) == o.kind = "url" /\ o.url # ""

\* Lines 185-188: executor.submit for the next image file.
Submit ==
    /\ apc = "submit"
    /\ submitted < N
    /\ submitted' = submitted + 1
    /\ fut' = [fut EXCEPT ![submitted + 1] = [state |-> "queued", outcome |-> None]]
    /\ UNCHANGED <<image_files, dry_run, max_workers, apc, calls, collectIdx,
                   training_examples, corpus, written, completed, collected,
                   source, rz, ux, bvars>>

\* The dict comprehension is complete; the for loop of line 190 starts.
BeginCollect ==
    /\ apc = "submit"
    /\ submitted = N
    /\ apc' = "collect"
    /\ UNCHANGED <<image_files, dry_run, max_workers, submitted, fut, calls,
                   collectIdx, training_examples, corpus, written, completed,
                   collected, source, rz, ux, bvars>>

\* A pool that starts a thread for every queued work item.
WorkerStartUnbounded(i) ==
    /\ i \in Queued
    /\ \A j \in Queued : i <= j
    /\ fut' = [fut EXCEPT ![i].state = "running"]
    /\ calls' = [calls EXCEPT ![i] = @ + 1]
    /\ UNCHANGED <<image_files, dry_run, max_workers, apc, submitted, collectIdx,
                   training_examples, corpus, written, completed, collected,
                   source, rz, ux, bvars>>

\* A pool thread takes the oldest queued work item and enters upload_image;
\* the pool has at most max_workers threads.
WorkerStart(i) ==
    /\ i \in Queued
    /\ \A j \in Queued : i <= j
    /\ Cardinality(Running) < max_workers
    /\ fut' = [fut EXCEPT ![i].state = "running"]
    /\ calls' = [calls EXCEPT ![i] = @ + 1]
    /\ UNCHANGED <<image_files, dry_run, max_workers, apc, submitted, collectIdx,
                   training_examples, corpus, written, completed, collected,
                   source, rz, ux, bvars>>

\* upload_image returns or raises in its pool thread; the endpoint's answer
\* is the environment's choice.
WorkerFinish(i) ==
    /\ i \in Running
    /\ \E resp \in Responses :
          fut' = [fut EXCEPT ![i] =
                    [state |-> "done",
                     outcome |-> upload_image(image_files[i], dry_run,
                                              DefaultResize, resp)]]
    /\ completed' = Append(completed, i)
    /\ UNCHANGED <<image_files, dry_run, max_workers, apc, submitted, calls,
                   collectIdx, training_examples, corpus, written, collected,
                   source, rz, ux, bvars>>

\* Lines 190-198, one iteration: future.result() blocks until the future is
\* done; a URL gives one example, None gives nothing, an exception held by
\* the future is re-raised by result() and caught at line 197.
Collect(i) ==
    /\ apc = "collect"
    /\ i \in NextFutures
    /\ fut[i].state = "done"
    /\ collectIdx' = collectIdx + 1
    /\ collected' = Append(collected, i)
    /\ IF fut[i].outcome.kind # "raise" /\ KeepsOutcome(fut[i].outcome)
       THEN /\ training_examples' =
                 Append(training_examples,
                        create_training_example(image_files[i], fut[i].outcome.url))
            /\ source' = Append(source, i)
       ELSE UNCHANGED <<training_examples, source>>
    /\ UNCHANGED <<image_files, dry_run, max_workers, apc, submitted, fut, calls,
                   corpus, written, completed, rz, ux, bvars>>

\* Line 199: leaving the `with` block is executor.shutdown(wait=True), which
\* returns once every submitted call has finished.
EndCollect ==
    /\ apc = "collect"
    /\ Len(collected) = N
    /\ \A i \in 1..N : fut[i].state = "done"
    /\ apc' = "write"
    /\ UNCHANGED <<image_files, dry_run, max_workers, submitted, fut, calls,
                   collectIdx, training_examples, corpus, written, completed,
                   collected, source, rz, ux, bvars>>

\* The output file written from inside the loop, with what has been
\* collected so far.
WriteCorpusEarly ==
    /\ apc \in {"collect", "write"}
    /\ corpus' = [k \in 1..Len(training_examples) |-> JsonLine(training_examples[k])]
    /\ written' = TRUE
    /\ apc' = "done"
    /\ UNCHANGED <<image_files, dry_run, max_workers, submitted, fut, calls,
                   collectIdx, training_examples, completed, collected, source, rz, ux, bvars>>

\* Lines 203-205: the output file is opened with 'w' and gets one line per
\* training example.
WriteCorpus ==
    /\ apc = "write"
    /\ corpus' = [k \in 1..Len(training_examples) |-> JsonLine(training_examples[k])]
    /\ written' = TRUE
    /\ apc' = "done"
    /\ UNCHANGED <<image_files, dry_run, max_workers, submitted, fut, calls,
                   collectIdx, training_examples, completed, collected, source, rz, ux, bvars>>

\* ------------------------------------------------------------------------
\* validate_jsonl  (submit_fine_tuning.py 64-144)
\* ------------------------------------------------------------------------

\* A line that json.loads rejects.
NotJsonLine == [json |-> FALSE, data |-> [hasMessages |-> FALSE, messages |-> <<>>]]

\* A message whose "role" key is missing reads as role "MISSING": msg["role"]
\* then raises KeyError.
Msg(role, content) == [role |-> role, content |-> content]

\* Lines 96-99 and 124-127: the first message with the given role. The scan
\* reads msg["role"] of every message up to the match: "raise" when one of
\* them has no role, "absent" when no message matches.
RECURSIVE FirstWithRole(_, _)
FirstWithRole(messages, role) ==
    IF messages = <<>> THEN [found |-> "absent", msg |-> Msg("", TextContent(""))]
    ELSE IF Head(messages).role = "MISSING"
         THEN [found |-> "raise", msg |-> Head(messages)]
    ELSE IF Head(messages).role = role
         THEN [found |-> "yes", msg |-> Head(messages)]
    ELSE FirstWithRole(Tail(messages), role)

\* Lines 110-116: an item of type image_url must hold image_url.url.
ItemOk(item) ==
    item.type = "image_url" => (item.hasImageUrl /\ item.hasUrl)

\* Lines 78-138: the checks made on one line.
ValidateLine(line) ==
    IF ~line.json THEN FALSE
    ELSE IF ~line.data.hasMessages THEN FALSE
    ELSE LET messages == line.data.messages
             user == FirstWithRole(messages, "user")
             assistant == FirstWithRole(messages, "assistant")
         IN  /\ Len(messages) >= 2
             /\ messages[1].role # "MISSING"
             /\ user.found = "yes"
             /\ user.msg.content.isList
             /\ \A k \in DOMAIN user.msg.content.items :
                    ItemOk(user.msg.content.items[k])
             /\ \E k \in DOMAIN user.msg.content.items :
                    user.msg.content.items[k].type = "image_url"
             /\ assistant.found = "yes"

\* validate_jsonl(file_path): a file that cannot be opened and an empty file
\* are rejected; otherwise every line must pass.
validate_jsonl(file) ==
    /\ file.exists
    /\ file.lines # <<>>
    /\ \A k \in DOMAIN file.lines : ValidateLine(file.lines[k])

\* ------------------------------------------------------------------------
\* Inputs of phase (b): the local files named on the command line
\* ------------------------------------------------------------------------

File(lines) == [exists |-> TRUE, lines |-> lines]

MissingFile == [exists |-> FALSE, lines |-> <<>>]

GoodLine == JsonLine(create_training_example(ImagePool[1], "https://cdn/u1"))

GoodLine2 == JsonLine(create_training_example(ImagePool[3], "https://cdn/d1"))

Line(messages) == JsonLine([hasMessages |-> TRUE, messages |-> messages])

SysMsg == Msg("system", TextContent("s"))

UserMsg(items) == Msg("user", ListContent(items))

AsstMsg == Msg("assistant", TextContent("a"))

\* Lines that differ from a produced line in one respect each.
SampleLines ==
    { GoodLine,
      NotJsonLine,
      JsonLine([hasMessages |-> FALSE, messages |-> <<>>]),
      Line(<< SysMsg >>),
      Line(<< UserMsg(<< ImageItem("u") >>), AsstMsg >>),
      Line(<< SysMsg, AsstMsg >>),
      Line(<< SysMsg, Msg("user", TextContent("q")), AsstMsg >>),
      Line(<< SysMsg, UserMsg(<< TextItem("q") >>), AsstMsg >>),
      Line(<< SysMsg, UserMsg(<< [ImageItem("u") EXCEPT !.hasUrl = FALSE] >>), AsstMsg >>),
      Line(<< SysMsg, UserMsg(<< [ImageItem("u") EXCEPT !.hasImageUrl = FALSE,
                                                        !.hasUrl = FALSE] >>), AsstMsg >>),
      Line(<< SysMsg, UserMsg(<< ImageItem("u") >>) >>),
      Line(<< SysMsg, Msg("MISSING", TextContent("x")), UserMsg(<< ImageItem("u") >>),
              AsstMsg >>) }

\* The local files tried: missing, empty, one line, and a good line followed
\* by a second line.
LocalFiles ==
    {MissingFile, File(<<>>), File(<<GoodLine, GoodLine2>>)}
    \cup {File(<<l>>) : l \in SampleLines}
    \cup {File(<<GoodLine, l>>) : l \in SampleLines}

\* ------------------------------------------------------------------------
\* wait_for_file_processing  (submit_fine_tuning.py 164-186)
\* ------------------------------------------------------------------------

\* wait_for_file_processing: default of the timeout parameter.
DefaultTimeout == 600

\* time.sleep(5) at lines 180 and 183.
PollInterval == 5

\* What client.files.retrieve can give: an exception ("EXC"), or an object
\* with a status of the service's vocabulary or outside it ("uploaded"). The
\* object of an `error` status may carry an `error` attribute or not
\* ("error_noattr": the client library's file object declares status and
\* status_details; other attributes are there only if the service sent them).
FileAnswers == {"pending", "processed", "error", "error_noattr", "uploaded", "EXC"}

\* file_info.status of an answer that is an object.
StatusOf(ans) == IF ans = "error_noattr" THEN "error" ELSE ans

\* The loop condition giving up one poll interval early.
StillWaitingEarly(e, t) == e + PollInterval < t

\* Line 169: the loop condition.
StillWaiting(e, t) == e < t

\* Lines 172-183: what one answer does to the call: return True, return
\* False, or sleep and go round again (any other status, and an exception).
\* Line 176 reads file_info.error inside the try, before the return of line
\* 177: on an object without that attribute the AttributeError is caught at
\* line 181, so the call sleeps and goes round again.
PollVerdict(ans) ==
    CASE ans = "processed"    -> "true"
      [] ans = "error"        -> "false"
      [] ans = "error_noattr" -> "again"
      [] OTHER                -> "again"

\* A sleep that returns at once.
SleepSecondsNone(late) == 0

\* Lines 180 and 183: time.sleep(5) lasts 5 seconds, or `late` more.
SleepSeconds(late) == PollInterval + late

\* Line 168 on entry: start_time = time.time().
EnterWait(t) ==
    /\ pc' = "wait_test"
    /\ timeout' = t
    /\ elapsed' = 0
    /\ testedAt' = 0
    /\ wres' = "none"
    /\ onlyPending' = TRUE
    /\ lastObs' = "none"

\* Line 169: `while time.time() - start_time < timeout`; lines 185-186 when
\* it fails.
WaitTest ==
    /\ pc = "wait_test"
    /\ IF StillWaiting(elapsed, timeout)
       THEN /\ pc' = "wait_poll"
            /\ testedAt' = elapsed
            /\ UNCHANGED wres
       ELSE /\ pc' = "wait_ret"
            /\ wres' = "false"
            /\ UNCHANGED testedAt
    /\ UNCHANGED <<avars, rz, ux, args, exit_code, stage, timeout, elapsed,
                   onlyPending, lastObs, observed, uploads, creates, jobLog, mres,
                   refused>>

\* Lines 170-183 up to the sleep: one status query, which takes `lat`
\* seconds and gives `ans`.
WaitPoll(lat, ans) ==
    /\ pc = "wait_poll"
    /\ elapsed' = elapsed + lat
    /\ lastObs' = StatusOf(ans)
    /\ observed' = [observed EXCEPT ![stage] = StatusOf(ans)]
    /\ onlyPending' = (onlyPending /\ ans = "pending")
    /\ IF PollVerdict(ans) = "again"
       THEN pc' = "wait_sleep" /\ UNCHANGED wres
       ELSE pc' = "wait_ret" /\ wres' = PollVerdict(ans)
    /\ UNCHANGED <<avars, rz, ux, args, exit_code, stage, timeout, testedAt,
                   uploads, creates, jobLog, mres,
                   refused>>

\* Lines 180 and 183, then back to the loop condition.
WaitSleep(late) ==
    /\ pc = "wait_sleep"
    /\ elapsed' = elapsed + SleepSeconds(late)
    /\ pc' = "wait_test"
    /\ UNCHANGED <<avars, rz, ux, args, exit_code, stage, timeout, testedAt, wres,
                   onlyPending, lastObs, observed, uploads, creates, jobLog, mres,
                   refused>>

\* ------------------------------------------------------------------------
\* monitor_fine_tuning_job  (submit_fine_tuning.py 216-248)
\* ------------------------------------------------------------------------

\* What client.fine_tuning.jobs.retrieve can give: a status of the service's
\* vocabulary, a status outside it ("paused"), or an exception ("EXC").
JobAnswers == {"validating_files", "queued", "running", "succeeded", "failed",
               "cancelled", "paused", "EXC"}

\* A monitor that gives up when a status query fails.
TerminalOrFailedQuery == {"succeeded", "failed", "cancelled", "EXC"}

\* Lines 227 and 231: the statuses that end the loop.
Terminal == {"succeeded", "failed", "cancelled"}

\* A monitor for which only `failed` is a failure: `cancelled` returns True.
MonitorResultFailedOnly(status) == IF status = "failed" THEN "false" ELSE "true"

\* Lines 227-235: the value returned for a terminal status.
MonitorResult(status) == IF status = "succeeded" THEN "true" ELSE "false"

\* Lines 221-235: one status query giving `ans`.
MonitorPoll(ans) ==
    /\ pc = "mon_poll"
    /\ jobLog' = Append(jobLog, ans)
    /\ IF ans \in Terminal
       THEN pc' = "mon_ret" /\ mres' = MonitorResult(ans)
       ELSE pc' = "mon_sleep" /\ UNCHANGED mres
    /\ UNCHANGED <<avars, rz, ux, args, exit_code, stage, timeout, elapsed, testedAt,
                   wres, onlyPending, lastObs, observed, uploads, creates,
                   refused>>

\* Lines 245 and 248: time.sleep(check_interval), then the next iteration of
\* `while True`.
MonitorSleep ==
    /\ pc = "mon_sleep"
    /\ pc' = "mon_poll"
    /\ UNCHANGED <<avars, rz, ux, args, exit_code, stage, timeout, elapsed, testedAt,
                   wres, onlyPending, lastObs, observed, uploads, creates, jobLog,
                   mres,
                   refused>>

\* ------------------------------------------------------------------------
\* main  (submit_fine_tuning.py 250-303)
\* ------------------------------------------------------------------------

\* sys.exit(code), or the normal end of main (code 0).
Exit(code) == pc' = "exit" /\ exit_code' = code

\* Lines 254-260: the credential; building the client calls no service.
MainCheckKey ==
    /\ pc = "main_start"
    /\ IF args.api_key \/ args.env_key
       THEN pc' = "main_validate" /\ UNCHANGED exit_code
       ELSE Exit(1)
    /\ UNCHANGED <<avars, rz, ux, args, stage, timeout, elapsed, testedAt, wres,
                   onlyPending, lastObs, observed, uploads, creates, jobLog, mres,
                   refused>>

\* main without lines 267-270: the validation file is never validated.
MainValidateTrainingOnly ==
    /\ pc = "main_validate"
    /\ IF ~validate_jsonl(args.training_file) THEN Exit(1)
       ELSE pc' = "main_upload" /\ UNCHANGED exit_code
    /\ UNCHANGED <<avars, rz, ux, args, stage, timeout, elapsed, testedAt, wres,
                   onlyPending, lastObs, observed, uploads, creates, jobLog, mres,
                   refused>>

\* Lines 262-270: both validations, made on the local files.
MainValidate ==
    /\ pc = "main_validate"
    /\ IF ~validate_jsonl(args.training_file) THEN Exit(1)
       ELSE IF args.has_validation /\ ~validate_jsonl(args.validation_file) THEN Exit(1)
       ELSE pc' = "main_upload" /\ UNCHANGED exit_code
    /\ UNCHANGED <<avars, rz, ux, args, stage, timeout, elapsed, testedAt, wres,
                   onlyPending, lastObs, observed, uploads, creates, jobLog, mres,
                   refused>>

\* main with an upload that is tried a second time after a failure.
MainUploadRetrying(accepted) ==
    /\ pc = "main_upload"
    /\ uploads' = [uploads EXCEPT ![stage] = @ + 1]
    /\ IF accepted
       THEN EnterWait(DefaultTimeout) /\ UNCHANGED <<exit_code, refused>>
       ELSE /\ IF uploads[stage] = 0 THEN UNCHANGED <<pc, exit_code>> ELSE Exit(1)
            /\ refused' = refused \cup {stage}
            /\ UNCHANGED <<timeout, elapsed, testedAt, wres, onlyPending, lastObs>>
    /\ UNCHANGED <<avars, rz, ux, args, stage, observed, creates, jobLog, mres>>

\* Lines 273-279 and 286-292: upload_file for the file being staged; the
\* service accepts it (a file id) or the call fails (None). On success main
\* calls wait_for_file_processing with the default timeout.
MainUpload(accepted) ==
    /\ pc = "main_upload"
    /\ uploads' = [uploads EXCEPT ![stage] = @ + 1]
    /\ IF accepted
       THEN EnterWait(DefaultTimeout) /\ UNCHANGED <<exit_code, refused>>
       ELSE /\ Exit(1)
            /\ refused' = refused \cup {stage}
            /\ UNCHANGED <<timeout, elapsed, testedAt, wres, onlyPending, lastObs>>
    /\ UNCHANGED <<avars, rz, ux, args, stage, observed, creates, jobLog, mres>>

\* main going on whatever wait_for_file_processing returned.
MainAfterWaitIgnoring ==
    /\ pc = "wait_ret"
    /\ elapsed' = 0
    /\ testedAt' = 0
    /\ IF stage = "training" /\ args.has_validation
       THEN pc' = "main_upload" /\ stage' = "validation" /\ UNCHANGED exit_code
       ELSE pc' = "main_create" /\ UNCHANGED <<stage, exit_code>>
    /\ UNCHANGED <<avars, rz, ux, args, timeout, wres, onlyPending, lastObs, observed,
                   uploads, creates, jobLog, mres, refused>>

\* main without lines 284-294: a given validation file is never staged.
MainAfterWaitSkipValidation ==
    /\ pc = "wait_ret"
    /\ elapsed' = 0
    /\ testedAt' = 0
    /\ IF wres # "true" THEN Exit(1) /\ UNCHANGED stage
       ELSE pc' = "main_create" /\ UNCHANGED <<stage, exit_code>>
    /\ UNCHANGED <<avars, rz, ux, args, timeout, wres, onlyPending, lastObs, observed,
                   uploads, creates, jobLog, mres, refused>>

\* Lines 279-285 and 292-294: the value wait_for_file_processing returned.
MainAfterWait ==
    /\ pc = "wait_ret"
    /\ elapsed' = 0
    /\ testedAt' = 0
    /\ IF wres # "true" THEN Exit(1) /\ UNCHANGED stage
       ELSE IF stage = "training" /\ args.has_validation
            THEN pc' = "main_upload" /\ stage' = "validation" /\ UNCHANGED exit_code
       ELSE pc' = "main_create" /\ UNCHANGED <<stage, exit_code>>
    /\ UNCHANGED <<avars, rz, ux, args, timeout, wres, onlyPending, lastObs, observed,
                   uploads, creates, jobLog, mres,
                   refused>>

\* Lines 297-303: create_fine_tuning_job; the service gives a job id or the
\* call fails (None). On success main calls monitor_fine_tuning_job.
MainCreateJob(accepted) ==
    /\ pc = "main_create"
    /\ creates' = creates + 1
    /\ IF accepted
       THEN pc' = "mon_poll" /\ UNCHANGED <<exit_code, refused>>
       ELSE Exit(1) /\ refused' = {"create"}
    /\ UNCHANGED <<avars, rz, ux, args, stage, timeout, elapsed, testedAt, wres,
                   onlyPending, lastObs, observed, uploads, jobLog, mres>>

\* main ending with sys.exit(0 if monitor_fine_tuning_job(...) else 1).
MainAfterMonitorChecked ==
    /\ pc = "mon_ret"
    /\ Exit(IF mres = "true" THEN 0 ELSE 1)
    /\ UNCHANGED <<avars, rz, ux, args, stage, timeout, elapsed, testedAt, wres,
                   onlyPending, lastObs, observed, uploads, creates, jobLog, mres,
                   refused>>

\* Line 303 and the end of main: the monitor's result is dropped.
MainAfterMonitor ==
    /\ pc = "mon_ret"
    /\ Exit(0)
    /\ UNCHANGED <<avars, rz, ux, args, stage, timeout, elapsed, testedAt, wres,
                   onlyPending, lastObs, observed, uploads, creates, jobLog, mres,
                   refused>>

\* ------------------------------------------------------------------------
\* Specifications
\* ------------------------------------------------------------------------

\* resize_image alone is not running.
RzIdle == [pc |-> "idle", readable |-> FALSE, w |-> 0, h |-> 0, M |-> 0, out |-> NoImage]

\* upload_image alone is not running.
UxIdle == [pc |-> "idle", file |-> ImagePool[1], dry_run |-> FALSE,
           resp |-> Response(FALSE, Absent, Absent, Absent), out |-> None]

NoArgs == [api_key |-> FALSE, env_key |-> FALSE, training_file |-> MissingFile,
           has_validation |-> FALSE, validation_file |-> MissingFile]

\* The locals and histories of phase (b) before anything ran.
PhaseBFresh ==
    /\ exit_code = -1
    /\ stage = "training"
    /\ timeout = 0
    /\ elapsed = 0
    /\ testedAt = 0
    /\ wres = "none"
    /\ onlyPending = TRUE
    /\ lastObs = "none"
    /\ observed = [f \in {"training", "validation"} |-> "none"]
    /\ uploads = [f \in {"training", "validation"} |-> 0]
    /\ creates = 0
    /\ jobLog = <<>>
    /\ mres = "none"
    /\ refused = {}

\* Phase (b) is not running.
PhaseBIdle ==
    /\ pc = "idle"
    /\ args = NoArgs
    /\ PhaseBFresh

\* No batch is running.
BatchIdle ==
    /\ image_files = <<>>
    /\ dry_run = FALSE
    /\ max_workers = 1
    /\ apc = "idle"
    /\ submitted = 0
    /\ fut = <<>>
    /\ calls = <<>>
    /\ collectIdx = 1
    /\ training_examples = <<>>
    /\ corpus = <<>>
    /\ written = FALSE
    /\ completed = <<>>
    /\ collected = <<>>
    /\ source = <<>>

\* --- Spec: one run of process_images ---

InitBatch ==
    /\ image_files \in ImageLists
    /\ dry_run \in BOOLEAN
    /\ max_workers \in 1..MaxWorkers
    /\ apc = "submit"
    /\ submitted = 0
    /\ fut = [i \in 1..Len(image_files) |-> NotStarted]
    /\ calls = [i \in 1..Len(image_files) |-> 0]
    /\ collectIdx = 1
    /\ training_examples = <<>>
    /\ corpus = <<>>
    /\ written = FALSE
    /\ completed = <<>>
    /\ collected = <<>>
    /\ source = <<>>

Init ==
    /\ InitBatch
    /\ rz = RzIdle
    /\ ux = UxIdle
    /\ PhaseBIdle

Next ==
    \/ Submit
    \/ BeginCollect
    \/ \E i \in 1..N : WorkerStart(i)
    \/ \E i \in 1..N : WorkerFinish(i)
    \/ \E i \in 1..N : Collect(i)
    \/ EndCollect
    \/ WriteCorpus

Spec == Init /\ [][Next]_vars

\* --- SpecResize: resize_image applied to one image ---

\* Sizes <<width, height, max_size>> beyond the small ones: photographs at
\* the default --resize, a strip whose shorter side scales below one pixel,
\* and squares whose float quotient falls short of the exact one.
ResizeSamples ==
    { <<2048, 1536, 1024>>, <<1200, 3000, 1024>>, <<4096, 3, 1024>>,
      <<3, 4096, 1024>>, <<1122, 1122, 1024>>, <<22, 22, 15>>, <<22, 11, 15>> }

InitResize ==
    /\ BatchIdle
    /\ PhaseBIdle
    /\ ux = UxIdle
    /\ rz \in [pc : {"call"}, readable : BOOLEAN, w : 1..MaxDim, h : 1..MaxDim,
                M : 1..MaxDim, out : {NoImage}]
              \cup { [pc |-> "call", readable |-> TRUE, w |-> t[1], h |-> t[2],
                      M |-> t[3], out |-> NoImage] : t \in ResizeSamples }

\* One call resize_image(image_path, max_size).
ResizeCall ==
    /\ rz.pc = "call"
    /\ rz' = [rz EXCEPT !.pc = "done",
                        !.out = ResizeImage(rz.readable, rz.w, rz.h, rz.M)]
    /\ UNCHANGED <<avars, ux, bvars>>

NextResize == ResizeCall

SpecResize == InitResize /\ [][NextResize]_vars

\* --- SpecUpload: upload_image applied to one file ---

InitUpload ==
    /\ BatchIdle
    /\ PhaseBIdle
    /\ rz = RzIdle
    /\ ux \in [pc : {"call"}, file : Range(ImagePool), dry_run : BOOLEAN,
                resp : ResponseShapes, out : {None}]

\* One call upload_image(image_path, args) with the default --resize; the
\* endpoint answers ux.resp if the call gets to the POST.
UploadCall ==
    /\ ux.pc = "call"
    /\ ux' = [ux EXCEPT !.pc = "done",
                        !.out = upload_image(ux.file, ux.dry_run, DefaultResize, ux.resp)]
    /\ UNCHANGED <<avars, rz, bvars>>

NextUpload == UploadCall

SpecUpload == InitUpload /\ [][NextUpload]_vars

\* --- SpecWait: one call wait_for_file_processing(client, file_id, timeout) ---

InitWait ==
    /\ BatchIdle
    /\ rz = RzIdle
    /\ ux = UxIdle
    /\ args = NoArgs
    /\ pc = "wait_test"
    /\ timeout \in 0..MaxTimeout
    /\ exit_code = -1
    /\ stage = "training"
    /\ elapsed = 0
    /\ testedAt = 0
    /\ wres = "none"
    /\ onlyPending = TRUE
    /\ lastObs = "none"
    /\ observed = [f \in {"training", "validation"} |-> "none"]
    /\ uploads = [f \in {"training", "validation"} |-> 1]
    /\ creates = 0
    /\ jobLog = <<>>
    /\ mres = "none"
    /\ refused = {}

NextWait ==
    \/ WaitTest
    \/ \E lat \in 0..MaxLatency, ans \in FileAnswers : WaitPoll(lat, ans)
    \/ \E late \in 0..MaxLatency : WaitSleep(late)

SpecWait == InitWait /\ [][NextWait]_vars

\* The interpreter keeps running the call: a thread that can take a step
\* takes it.
FairSpecWait == SpecWait /\ WF_vars(NextWait)

\* --- SpecMain: one run of submit_fine_tuning.py ---

InitMain ==
    /\ BatchIdle
    /\ rz = RzIdle
    /\ ux = UxIdle
    /\ pc = "main_start"
    /\ args \in [api_key : BOOLEAN, env_key : BOOLEAN, training_file : LocalFiles,
                 has_validation : {FALSE}, validation_file : {MissingFile}]
          \cup [api_key : {TRUE}, env_key : {FALSE}, training_file : LocalFiles,
                has_validation : {TRUE}, validation_file : LocalFiles]
    /\ PhaseBFresh

NextMain ==
    \/ MainCheckKey
    \/ MainValidate
    \/ \E accepted \in BOOLEAN : MainUpload(accepted)
    \/ WaitTest
    \/ \E ans \in FileAnswers : WaitPoll(0, ans)
    \/ WaitSleep(0)
    \/ MainAfterWait
    \/ \E accepted \in BOOLEAN : MainCreateJob(accepted)
    \/ \E ans \in JobAnswers : Len(jobLog) < MaxPolls /\ MonitorPoll(ans)
    \/ MonitorSleep
    \/ MainAfterMonitor

SpecMain == InitMain /\ [][NextMain]_vars

\* ------------------------------------------------------------------------
\* Claims about process_images  (specification Spec)
\* ------------------------------------------------------------------------

\* The futures whose upload_image call returned a URL.
Succeeded == {i \in 1..N : fut[i].state = "done" /\ fut[i].outcome.kind = "url"}

\* The futures whose upload_image call returned None or raised.
Failed == {i \in 1..N : fut[i].state = "done" /\ fut[i].outcome.kind # "url"}

\* The line process_images writes for path i, given the URL its upload gave.
LineOf(i) == JsonLine(create_training_example(image_files[i], fut[i].outcome.url))

\* C1: every path is handed to upload_image exactly once; when the run is
\* over the file has been written and holds exactly one record for each path
\* whose upload returned a URL and none for a path whose upload failed, so
\* N - K records for K failures (an empty, normally written file for K = N).
C1_OneRecordPerSuccess ==
    /\ \A i \in 1..N : calls[i] <= 1
    /\ apc = "done" =>
          /\ written
          /\ \A i \in 1..N : calls[i] = 1
          /\ Len(corpus) = N - Cardinality(Failed)
          /\ Len(source) = Len(corpus)
          /\ Range(source) = Succeeded
          /\ \A k \in DOMAIN corpus : corpus[k] = LineOf(source[k])

\* C1 witness: a finished run of three paths with one upload that returned
\* None, one that raised and one that gave a URL.
C1_Witness ==
    /\ apc = "done"
    /\ N = 3
    /\ \E i \in 1..N : fut[i].outcome.kind = "none"
    /\ \E i \in 1..N : fut[i].outcome.kind = "raise"
    /\ \E i \in 1..N : fut[i].outcome.kind = "url"
    /\ Len(corpus) = 1

\* C2 as stated: outcomes are collected in completion order, so what has
\* been collected so far is the beginning of the completion order.
C2_CollectedInCompletionOrder ==
    /\ Len(collected) <= Len(completed)
    /\ collected = SubSeq(completed, 1, Len(collected))

\* C2 as amended: outcomes are collected in submission order, whatever the
\* order in which the workers finish, and the records of the corpus are in
\* the order of the input path list.
C2_CollectedInSubmissionOrder ==
    /\ collected = [k \in 1..Len(collected) |-> k]
    /\ \A j, k \in DOMAIN source : j < k => source[j] < source[k]
    /\ apc = "done" => \A k \in DOMAIN corpus : corpus[k] = LineOf(source[k])

\* C2 witness: a finished run whose workers finished out of submission order
\* and which wrote two records or more.
C2_Witness ==
    /\ apc = "done"
    /\ Len(corpus) >= 2
    /\ completed # collected
    /\ \E j, k \in DOMAIN completed :
          j < k /\ completed[j] > completed[k]
             /\ completed[j] \in Succeeded /\ completed[k] \in Succeeded

\* The paths of the run that do not decode as images.
Undecodable == {i \in 1..N : ~image_files[i].readable}

\* C3 as stated: a dry run of N paths of which K do not decode writes N - K
\* records, each with the placeholder URL of its own file name.
C3_DryRunDropsUndecodable ==
    (apc = "done" /\ dry_run) =>
        /\ Len(corpus) = N - Cardinality(Undecodable)
        /\ \A k \in DOMAIN corpus :
              corpus[k] = JsonLine(create_training_example(
                              image_files[source[k]],
                              PlaceholderUrl(image_files[source[k]])))

\* C3 as amended: a dry run decodes nothing, so it writes N records, one per
\* path in input order, each with the placeholder URL of its own file name,
\* whether or not the file decodes.
C3_DryRunKeepsEveryPath ==
    (apc = "done" /\ dry_run) =>
        /\ Len(corpus) = N
        /\ \A k \in DOMAIN corpus :
              corpus[k] = JsonLine(create_training_example(
                              image_files[k], PlaceholderUrl(image_files[k])))

\* C3 witness: the scenario: a finished dry run of three paths, one of them
\* undecodable, with two workers.
C3_Witness ==
    /\ apc = "done"
    /\ dry_run
    /\ max_workers = 2
    /\ N = 3
    /\ Cardinality(Undecodable) = 1
    /\ Len(corpus) = 3

\* The image references of a user turn: its items of type image_url.
ImageRefs(msg) ==
    {j \in DOMAIN msg.content.items : msg.content.items[j].type = "image_url"}

\* C15: every line of the corpus is JSON text that parses back to a record
\* of exactly three messages, system, user, assistant in this order, whose
\* user turn holds exactly one image reference (with its URL) and whose
\* assistant turn is a non-empty text; each line passes the checks that
\* validate_jsonl makes on a line, and a written corpus with at least one
\* line is accepted by validate_jsonl as a file.
C15_WrittenLinesValidate ==
    /\ \A k \in DOMAIN corpus :
          LET line == corpus[k]
              msgs == line.data.messages
          IN  /\ line.json
              /\ line.data.hasMessages
              /\ Len(msgs) = 3
              /\ <<msgs[1].role, msgs[2].role, msgs[3].role>>
                    = <<"system", "user", "assistant">>
              /\ msgs[2].content.isList
              /\ Cardinality(ImageRefs(msgs[2])) = 1
              /\ \A j \in ImageRefs(msgs[2]) :
                    msgs[2].content.items[j].hasUrl /\ msgs[2].content.items[j].url # ""
              /\ ~msgs[3].content.isList
              /\ msgs[3].content.text # ""
              /\ ValidateLine(line)
    /\ (written /\ corpus # <<>>) => validate_jsonl(File(corpus))

\* C15 witness: a written corpus of two lines or more, from real uploads,
\* with an instrument of unknown category among them.
C15_Witness ==
    /\ apc = "done"
    /\ ~dry_run
    /\ Len(corpus) >= 2
    /\ \E k \in DOMAIN corpus :
          corpus[k].data.messages[3].content.text = AssistantText("Unknown")
    /\ \E k \in DOMAIN corpus :
          corpus[k].data.messages[3].content.text = AssistantText("Adson brown forceps")

\* C17: the output file is written only once every submitted upload_image
\* call has finished; the list of training examples grows only in a step of
\* the main thread's collection loop and the file changes only in the main
\* thread's write step; a step of a pool thread touches neither.
C17_JoinBarrier ==
    /\ []((written \/ apc \in {"write", "done"}) =>
            (submitted = N /\ \A i \in 1..N : fut[i].state = "done"))
    /\ [][training_examples' # training_examples =>
            (apc = "collect" /\ collected' # collected /\ fut' = fut)]_vars
    /\ [][(corpus' # corpus \/ written' # written) =>
            (apc = "write" /\ apc' = "done" /\ fut' = fut)]_vars
    /\ [][fut' # fut => UNCHANGED <<training_examples, corpus, written>>]_vars

\* C17 witness: a written corpus of a run of three paths on two workers
\* that finished out of submission order.
C17_Witness ==
    /\ written
    /\ N = 3
    /\ max_workers = 2
    /\ completed \notin {<<>>, <<1, 2, 3>>}
    /\ corpus # <<>>

\* C18: at every moment the number of upload_image calls in progress is at
\* most max_workers.
C18_AtMostMaxWorkersRunning ==
    Cardinality(Running) <= max_workers

\* C18 witness: two workers, both busy, with a third path waiting in the
\* queue.
C18_Witness ==
    /\ max_workers = 2
    /\ Cardinality(Running) = 2
    /\ Queued # {}

\* ------------------------------------------------------------------------
\* Claims about resize_image  (specification SpecResize)
\* ------------------------------------------------------------------------

\* C4 as stated: a readable image whose longer side is at most M comes back
\* as an unmodified copy, in both orientations.
C4_SmallImageIsCopied ==
    (rz.pc = "done" /\ rz.readable /\ Max2(rz.w, rz.h) <= rz.M) =>
        rz.out = [kind |-> "copy", w |-> rz.w, h |-> rz.h]

\* C14 as stated: a readable image whose longer side exceeds M comes back
\* resized, never as a failure: its longer side is M and its shorter side is
\* the original shorter side times M / max(w, h), rounded down.
C14_ResizedToBound ==
    (rz.pc = "done" /\ rz.readable /\ Max2(rz.w, rz.h) > rz.M) =>
        /\ rz.out.kind = "resized"
        /\ IF rz.w > rz.h
           THEN rz.out.w = rz.M /\ rz.out.h = (rz.h * rz.M) \div rz.w
           ELSE rz.out.h = rz.M /\ rz.out.w = (rz.w * rz.M) \div rz.h

\* ------------------------------------------------------------------------
\* Claims about upload_image  (specification SpecUpload)
\* ------------------------------------------------------------------------

\* Whether a response field holds a URL: a non-empty string.
HoldsUrl(f) == f.t = "str" /\ f.v # ""

\* The field at path data.url: missing unless `data` is an object with one.
DataUrl(result) ==
    IF result.data.t = "obj" /\ result.data.u = "str" THEN Str(result.data.v) ELSE Absent

\* The first of the paths url, data.url, image_url that holds a URL.
FirstUrl(result) ==
    IF HoldsUrl(result.url) THEN Url(result.url.v)
    ELSE IF HoldsUrl(DataUrl(result)) THEN Url(DataUrl(result).v)
    ELSE IF HoldsUrl(result.image_url) THEN Url(result.image_url.v)
    ELSE None

\* The call got as far as the POST: not a dry run, the image was resized and
\* re-encoded.
Posted ==
    /\ ~ux.dry_run
    /\ ResizeImage(ux.file.readable, ux.file.w, ux.file.h, DefaultResize).kind # "none"
    /\ JpegSavable(ux.file.mode)

\* C13 as stated: for a 2xx JSON answer, upload_image returns the URL of the
\* first of the paths url, data.url, image_url that holds one, and fails only
\* when none of the three does, whatever the other fields look like.
C13_FirstUrlOfThreePaths ==
    (ux.pc = "done" /\ Posted /\ ux.resp.ok) => ux.out = FirstUrl(ux.resp)

\* C19 as stated: whatever fails, upload_image returns: its caller gets a URL
\* or None, never an exception.
C19_UploadNeverRaises ==
    ux.pc = "done" => ux.out.kind \in {"url", "none"}

\* ------------------------------------------------------------------------
\* Claims about wait_for_file_processing  (SpecWait, FairSpecWait)
\* ------------------------------------------------------------------------

\* C5: when every poll of the call observed `pending`, the call returns
\* failure, and only once the time elapsed since its start has reached the
\* timeout.
C5_PendingTimesOutNotEarly ==
    (pc = "wait_ret" /\ onlyPending) =>
        /\ wres = "false"
        /\ elapsed >= timeout

\* C5 witness: a call with a timeout of two poll intervals or more that
\* returned after polls that all observed `pending`.
C5_Witness ==
    /\ pc = "wait_ret"
    /\ onlyPending
    /\ lastObs = "pending"
    /\ timeout >= 2 * PollInterval
    /\ wres = "false"

\* C6 as stated: the call returns success only after a poll, made while the elapsed
\* time was below the timeout, that observed `processed`; a poll observing
\* `error` ends the call with failure at once; nothing is polled after the
\* call returned; any other status is followed by a sleep of at least 5
\* seconds and the next round of the loop, which polls again while the
\* elapsed time is below the timeout.
C6_PollOutcomes ==
    /\ [](wres = "true" => (lastObs = "processed" /\ testedAt < timeout))
    /\ [][ /\ (pc = "wait_poll" /\ lastObs' = "error")
                => (pc' = "wait_ret" /\ wres' = "false")
           /\ (pc = "wait_poll" /\ lastObs' = "processed")
                => (pc' = "wait_ret" /\ wres' = "true")
           /\ (pc = "wait_poll" /\ lastObs' \notin {"processed", "error"})
                => (pc' = "wait_sleep" /\ wres' = "none")
           /\ pc = "wait_sleep"
                => (pc' = "wait_test" /\ elapsed' >= elapsed + 5)
           /\ (pc = "wait_test" /\ elapsed < timeout) => pc' = "wait_poll"
           /\ pc = "wait_ret" => (pc' # "wait_poll" /\ lastObs' = lastObs)
         ]_vars

\* C7: a failed status query never ends the call by itself (it is followed
\* by the sleep); whatever the service answers, the call returns; and when it
\* returns without having just observed `processed` or `error`, it returns
\* failure with the timeout elapsed.
C7_QueryFailureKeepsWaiting ==
    /\ [][(pc = "wait_poll" /\ lastObs' = "EXC")
            => (pc' = "wait_sleep" /\ wres' = "none")]_vars
    /\ <>(pc = "wait_ret")
    /\ [](pc = "wait_ret" /\ lastObs \notin {"processed", "error"}
            => (wres = "false" /\ elapsed >= timeout))

\* C7 witness: a call that returned failure on timeout after a last status
\* query that failed.
C7_Witness ==
    /\ pc = "wait_ret"
    /\ wres = "false"
    /\ lastObs = "EXC"
    /\ timeout > 0
    /\ elapsed >= timeout

\* ------------------------------------------------------------------------
\* Claims about monitor_fine_tuning_job and main  (specification SpecMain)
\* ------------------------------------------------------------------------

\* C8: the monitor returns at the first poll that observes succeeded, failed
\* or cancelled and polls no more: a terminal status is only ever the last
\* entry of the poll log, the monitor has then returned, with success exactly
\* for `succeeded`; and a monitor that returned has seen a terminal status.
\* The number of queries is thus the position of the first terminal status.
C8_ReturnsAtFirstTerminal ==
    /\ \A k \in DOMAIN jobLog :
          jobLog[k] \in {"succeeded", "failed", "cancelled"} =>
              /\ k = Len(jobLog)
              /\ pc \in {"mon_ret", "exit"}
              /\ mres = (IF jobLog[k] = "succeeded" THEN "true" ELSE "false")
    /\ pc = "mon_ret" =>
          (jobLog # <<>> /\ Last(jobLog) \in {"succeeded", "failed", "cancelled"})

\* C8 witness: the scenario: queued, running, succeeded gives success after
\* exactly three polls.
C8_Witness ==
    /\ pc = "mon_ret"
    /\ jobLog = <<"queued", "running", "succeeded">>
    /\ mres = "true"

\* C9: the monitor leaves its loop only on a poll that observes succeeded,
\* failed or cancelled: a failed query or any other status is followed by
\* the sleep, and the sleep by the next query.
C9_MonitorNeverGivesUp ==
    [][ /\ (pc \in {"mon_poll", "mon_sleep"} /\ pc' \notin {"mon_poll", "mon_sleep"})
             => /\ jobLog' = Append(jobLog, Last(jobLog'))
                /\ Last(jobLog') \in {"succeeded", "failed", "cancelled"}
        /\ (pc = "mon_poll" /\ jobLog' # jobLog
               /\ Last(jobLog') \notin {"succeeded", "failed", "cancelled"})
             => (pc' = "mon_sleep" /\ mres' = "none")
        /\ pc = "mon_sleep" => (pc' = "mon_poll" /\ jobLog' = jobLog)
      ]_vars

\* C9 witness: a monitor about to query again after a failed query and a
\* status outside the service's vocabulary.
C9_Witness ==
    /\ pc = "mon_poll"
    /\ Len(jobLog) >= 3
    /\ "EXC" \in Range(jobLog)
    /\ "paused" \in Range(jobLog)
    /\ mres = "none"

\* Whether a local file would be refused by validate_jsonl.
Rejected(file) == ~validate_jsonl(file)

\* A run whose training file, or whose validation file when given, is
\* refused.
BadInput ==
    \/ Rejected(args.training_file)
    \/ (args.has_validation /\ Rejected(args.validation_file))

\* C10: when a given file fails validate_jsonl the run makes no call to the
\* training service (no upload, no file status query, no job creation, no
\* job status query) and, once it has exited, has exit status 1.
C10_InvalidFileExitsBeforeAnyCall ==
    BadInput =>
        /\ \A f \in {"training", "validation"} : uploads[f] = 0 /\ observed[f] = "none"
        /\ creates = 0
        /\ jobLog = <<>>
        /\ pc \in {"main_start", "main_validate", "exit"}
        /\ pc = "exit" => exit_code = 1

\* C10 witness: a run with a credential and a valid training file that
\* exited on a refused validation file.
C10_Witness ==
    /\ pc = "exit"
    /\ exit_code = 1
    /\ args.api_key
    /\ ~Rejected(args.training_file)
    /\ args.has_validation
    /\ Rejected(args.validation_file)

\* C11: nothing but status polling is repeated: each local file is uploaded
\* at most once (the validation file only when one is given), the job is
\* created at most once, and once an upload was rejected or the job creation
\* failed the run has exited and makes no further call of any kind.
C11_NothingRetried ==
    /\ [](\A f \in {"training", "validation"} : uploads[f] <= 1)
    /\ [](~args.has_validation => uploads["validation"] = 0)
    /\ [](creates <= 1)
    /\ [](refused # {} => pc = "exit")
    /\ [][refused # {} =>
            UNCHANGED <<pc, uploads, creates, jobLog, observed, lastObs, elapsed>>]_vars

\* C11 witness: a run that exited on the rejected upload of its validation
\* file, after one upload of each file and no job creation.
C11_Witness ==
    /\ pc = "exit"
    /\ refused = {"validation"}
    /\ uploads = [f \in {"training", "validation"} |-> 1]
    /\ observed["training"] = "processed"
    /\ creates = 0
    /\ jobLog = <<>>

\* Lines 253-255: neither --api-key nor OPENAI_API_KEY gives a credential.
NoCredential == ~(args.api_key \/ args.env_key)

\* C12: each unrecoverable failure ends the run with exit status 1: a missing
\* credential, a refused training or validation file, a rejected upload of
\* either file, a failed job creation (the run has then exited, with status
\* 1), and a wait_for_file_processing call that returned failure, on an
\* `error` status or on timeout, for either file (the next step of main is
\* then the exit with status 1).
C12_FailuresExitNonZero ==
    /\ []((NoCredential /\ pc # "main_start") => (pc = "exit" /\ exit_code = 1))
    /\ []((BadInput /\ pc \notin {"main_start", "main_validate"})
            => (pc = "exit" /\ exit_code = 1))
    /\ [](refused # {} => (pc = "exit" /\ exit_code = 1))
    /\ [](wres = "false" => (pc \in {"wait_ret", "exit"} /\ (pc = "exit" => exit_code = 1)))
    /\ [][(pc = "wait_ret" /\ wres = "false") => (pc' = "exit" /\ exit_code' = 1)]_vars

\* C12 witness: a run that exited with status 1 because the wait for its
\* validation file returned failure after a poll that observed `error`.
C12_Witness ==
    /\ pc = "exit"
    /\ exit_code = 1
    /\ stage = "validation"
    /\ wres = "false"
    /\ lastObs = "error"
    /\ refused = {}

\* C16: the calls of a run are made in the order upload, processing wait,
\* job creation, job polling: a file's status is queried only after its
\* upload was accepted; the validation file is uploaded only after the
\* training file was observed `processed`; the job is created only after the
\* training file, and the validation file when one is given, was uploaded and
\* observed `processed`; and the job's status is queried only after the one
\* job creation call returned a job id.
C16_CallOrder ==
    /\ \A f \in {"training", "validation"} :
          observed[f] # "none" => (uploads[f] = 1 /\ f \notin refused)
    /\ uploads["validation"] > 0 => observed["training"] = "processed"
    /\ creates > 0 =>
          /\ uploads["training"] = 1
          /\ observed["training"] = "processed"
          /\ args.has_validation =>
                (uploads["validation"] = 1 /\ observed["validation"] = "processed")
    /\ jobLog # <<>> => (creates = 1 /\ "create" \notin refused)

\* C16 witness: a run with a validation file that has queried the status of
\* its job twice.
C16_Witness ==
    /\ args.has_validation
    /\ Len(jobLog) = 2
    /\ creates = 1
    /\ observed = [f \in {"training", "validation"} |-> "processed"]

\* C20: a run that reached the monitor ends with exit status 0 whatever the
\* monitor returned: True for `succeeded`, False for `failed` and
\* `cancelled`.
C20_ExitIgnoresJobOutcome ==
    (pc = "exit" /\ jobLog # <<>>) =>
        /\ Last(jobLog) \in {"succeeded", "failed", "cancelled"}
        /\ mres = (IF Last(jobLog) = "succeeded" THEN "true" ELSE "false")
        /\ exit_code = 0

\* C20 witness: a run whose job ended `cancelled`, whose monitor returned
\* False, and which exited with status 0.
C20_Witness ==
    /\ pc = "exit"
    /\ jobLog # <<>>
    /\ Last(jobLog) = "cancelled"
    /\ mres = "false"
    /\ exit_code = 0

====
